---------------------------- MODULE Spec2Model ----------------------------
(***************************************************************************)
(* A model of nilearn/_utils/progress.py: the ProgressBar tracker, its     *)
(* no-op stand-in EmptyProgressBar, the SharedProgressBar manager and the  *)
(* make_progress_bar factory.                                              *)
(*                                                                         *)
(* current_state_, step_size_ and remaining_time_ are Python floats, that  *)
(* is IEEE-754 binary64 numbers.  They are modelled bit-exactly: a number  *)
(* is a record [s, m, e] of value (-1)^s * m * 2^e, m an arbitrary-size    *)
(* natural held as a little-endian sequence of base-2^15 limbs, and every  *)
(* float operation computes the exact result and rounds it to 53           *)
(* significant bits, ties to even.  (The exponent range of binary64 is not *)
(* modelled: no value here comes near it.)                                 *)
(***************************************************************************)
EXTENDS Integers, Sequences, FiniteSets, TLC

(***************************************************************************)
(* Arbitrary-size naturals.                                                *)
(***************************************************************************)
Base == 32768
LimbBits == 15

\* 2^k for 0 <= k <= LimbBits
Pow2(k) ==
    <<1, 2, 4, 8, 16, 32, 64, 128, 256, 512, 1024, 2048, 4096, 8192, 16384,
      32768>>[k + 1]

RECURSIVE BNorm(_)
BNorm(a) ==
    IF a = <<>> THEN a
    ELSE IF a[Len(a)] = 0 THEN BNorm(SubSeq(a, 1, Len(a) - 1)) ELSE a

RECURSIVE BFromInt(_)
BFromInt(n) ==
    IF n = 0 THEN <<>> ELSE <<n % Base>> \o BFromInt(n \div Base)

RECURSIVE BAddC(_, _, _)
BAddC(a, b, c) ==
    IF a = <<>> /\ b = <<>>
    THEN (IF c = 0 THEN <<>> ELSE <<c>>)
    ELSE LET x == IF a = <<>> THEN 0 ELSE Head(a)
             y == IF b = <<>> THEN 0 ELSE Head(b)
             t == x + y + c
         IN  <<t % Base>>
               \o BAddC(IF a = <<>> THEN a ELSE Tail(a),
                        IF b = <<>> THEN b ELSE Tail(b), t \div Base)

BAdd(a, b) == BAddC(a, b, 0)

\* a - b - c for a >= b + c, before the high zero limbs are stripped
RECURSIVE BSubC(_, _, _)
BSubC(a, b, c) ==
    IF a = <<>> THEN <<>>
    ELSE LET y == IF b = <<>> THEN 0 ELSE Head(b)
             t == Head(a) - y - c
         IN  <<t % Base>>
               \o BSubC(Tail(a), IF b = <<>> THEN b ELSE Tail(b),
                        IF t < 0 THEN 1 ELSE 0)

BSub(a, b) == BNorm(BSubC(a, b, 0))

\* -1, 0, 1 as a < b, a = b, a > b; i is the limb compared, from the top
RECURSIVE BCmpAt(_, _, _)
BCmpAt(a, b, i) ==
    IF i = 0 THEN 0
    ELSE IF a[i] < b[i] THEN -1
    ELSE IF a[i] > b[i] THEN 1
    ELSE BCmpAt(a, b, i - 1)

BCmp(a, b) ==
    IF Len(a) < Len(b) THEN -1
    ELSE IF Len(a) > Len(b) THEN 1
    ELSE BCmpAt(a, b, Len(a))

\* a * k + c for a limb-sized k
RECURSIVE BMulSmall(_, _, _)
BMulSmall(a, k, c) ==
    IF a = <<>> THEN (IF c = 0 THEN <<>> ELSE <<c>>)
    ELSE LET t == Head(a) * k + c
         IN  <<t % Base>> \o BMulSmall(Tail(a), k, t \div Base)

RECURSIVE BMul(_, _)
BMul(a, b) ==
    IF a = <<>> \/ b = <<>> THEN <<>>
    ELSE LET rest == BMul(a, Tail(b))
         IN  BAdd(BMulSmall(a, Head(b), 0),
                  IF rest = <<>> THEN rest ELSE <<0>> \o rest)

BShl(a, k) ==
    IF a = <<>> THEN a
    ELSE [i \in 1..(k \div LimbBits) |-> 0]
           \o BMulSmall(a, Pow2(k % LimbBits), 0)

BShr(a, k) ==
    LET q == k \div LimbBits
        r == k % LimbBits
        d == IF q >= Len(a) THEN <<>> ELSE SubSeq(a, q + 1, Len(a))
    IN  BNorm([i \in 1..Len(d) |->
                 (d[i] \div Pow2(r))
                   + (IF i < Len(d)
                      THEN (d[i + 1] % Pow2(r)) * Pow2(LimbBits - r)
                      ELSE 0)])

\* the number of bits of a limb
IntBitLen(n) ==
    CHOOSE k \in 0..LimbBits : n < Pow2(k) /\ (k = 0 \/ n >= Pow2(k - 1))

BBitLen(a) ==
    IF a = <<>> THEN 0
    ELSE LimbBits * (Len(a) - 1) + IntBitLen(a[Len(a)])

BBit(a, i) ==  \* bit i of a, bit 0 the lowest
    LET q == i \div LimbBits
    IN  IF q >= Len(a) THEN 0
        ELSE (a[q + 1] \div Pow2(i % LimbBits)) % 2

BTrailingZeros(a) ==  \* the number of low zero bits of a # 0
    LET i == CHOOSE j \in 1..Len(a) : a[j] # 0 /\ \A h \in 1..(j - 1) : a[h] = 0
        z == CHOOSE k \in 0..(LimbBits - 1) :
                 a[i] % Pow2(k) = 0 /\ (a[i] \div Pow2(k)) % 2 = 1
    IN  LimbBits * (i - 1) + z

\* One step of restoring long division by b # 0: bit i of a is brought down
\* to the remainder r; <<quotient bit, remainder>>.
BDivBit(a, b, i, r) ==
    LET r2 == BAdd(BMulSmall(r, 2, 0), IF BBit(a, i) = 1 THEN <<1>> ELSE <<>>)
    IN  IF BCmp(r2, b) >= 0 THEN <<<<1>>, BSub(r2, b)>> ELSE <<<<>>, r2>>

\* Bits hi down to lo of a are brought down to the remainder r, the upper
\* half of them first; <<quotient bits, remainder>>.
RECURSIVE BDivBits(_, _, _, _, _)
BDivBits(a, b, hi, lo, r) ==
    IF hi = lo THEN BDivBit(a, b, hi, r)
    ELSE LET mid   == (hi + lo + 1) \div 2
             upper == BDivBits(a, b, hi, mid, r)
             lower == BDivBits(a, b, mid - 1, lo, upper[2])
         IN  <<BAdd(BShl(upper[1], mid - lo), lower[1]), lower[2]>>

\* <<quotient, remainder>> of a by b # 0.  The top bits of a that cannot
\* reach b are brought down at once.
BDivMod(a, b) ==
    LET n == BBitLen(a)
        k == BBitLen(b) - 1
    IN  IF n <= k THEN <<<<>>, a>>
        ELSE BDivBits(a, b, n - k - 1, 0, BShr(a, n - k))

(***************************************************************************)
(* Python floats.                                                          *)
(***************************************************************************)
Precision == 53

Zero == [s |-> 0, m |-> <<>>, e |-> 0]

\* The one record of a value: m odd, or zero.
Canon(s, m, e) ==
    IF m = <<>> THEN Zero
    ELSE LET z == BTrailingZeros(m)
         IN  [s |-> s, m |-> BShr(m, z), e |-> e + z]

\* Round an exact value to Precision significant bits, ties to even.
RoundNearestEven(s, m, e) ==
    LET n == BBitLen(m)
    IN  IF n <= Precision THEN Canon(s, m, e)
        ELSE LET d    == n - Precision
                 q    == BShr(m, d)
                 rem  == BSub(m, BShl(q, d))
                 half == BShl(<<1>>, d - 1)
                 c    == BCmp(rem, half)
                 up   == c > 0 \/ (c = 0 /\ BBit(q, 0) = 1)
             IN  Canon(s, IF up THEN BAdd(q, <<1>>) ELSE q, e + d)

FromInt(n) == Canon(IF n < 0 THEN 1 ELSE 0, BFromInt(IF n < 0 THEN -n ELSE n), 0)

FNeg(x) == IF x.m = <<>> THEN x ELSE [x EXCEPT !.s = 1 - x.s]

\* The exact sum of two numbers, as <<s, m, e>>, not rounded.
ExactSum(x, y) ==
    LET e  == IF x.e < y.e THEN x.e ELSE y.e
        mx == BShl(x.m, x.e - e)
        my == BShl(y.m, y.e - e)
        c  == BCmp(mx, my)
    IN  IF x.s = y.s THEN <<x.s, BAdd(mx, my), e>>
        ELSE IF c = 0 THEN <<0, <<>>, 0>>
        ELSE IF c > 0 THEN <<x.s, BSub(mx, my), e>>
        ELSE <<y.s, BSub(my, mx), e>>

FAdd(x, y) ==
    LET t == ExactSum(x, y) IN RoundNearestEven(t[1], t[2], t[3])

FSub(x, y) == FAdd(x, FNeg(y))

FMul(x, y) ==
    RoundNearestEven((x.s + y.s) % 2, BMul(x.m, y.m), x.e + y.e)

\* x / y for y # 0: enough quotient bits, and a sticky bit for the remainder
FDiv(x, y) ==
    IF x.m = <<>> THEN Zero
    ELSE LET k0 == Precision + 2 + BBitLen(y.m) - BBitLen(x.m)
             k  == IF k0 < 0 THEN 0 ELSE k0
             qr == BDivMod(BShl(x.m, k), y.m)
             m  == BAdd(BMulSmall(qr[1], 2, 0),
                        IF qr[2] = <<>> THEN <<>> ELSE <<1>>)
         IN  RoundNearestEven((x.s + y.s) % 2, m, x.e - y.e - k - 1)

\* -1, 0, 1 as x < y, x = y, x > y
FCmp(x, y) ==
    LET t == ExactSum(x, FNeg(y))
    IN  IF t[2] = <<>> THEN 0 ELSE IF t[1] = 1 THEN -1 ELSE 1

FLe(x, y) == FCmp(x, y) <= 0
FGt(x, y) == FCmp(x, y) > 0
FGe(x, y) == FCmp(x, y) >= 0

(***************************************************************************)
(* Bounds of the model.                                                    *)
(***************************************************************************)
MaxSteps == 3        \* Spec: n_steps ranges over -MaxNeg .. MaxSteps
MaxNeg == 1
MaxLongSteps == 12   \* SpecSteps: n_steps ranges over -MaxNeg .. MaxLongSteps
ExtraCalls == 2      \* show_progress is called at most n_steps + ExtraCalls times
MaxClock == 2        \* time.time() ranges over 0 .. MaxClock
MaxVerbosity == 2    \* verbosity_level ranges over 0 .. MaxVerbosity
NWorkers == 2        \* SpecShared: the worker processes
SharedSteps == 4     \* SpecShared: the n_steps the workers share out

Workers == 1..NWorkers

\* SpecShared: the show_progress calls each worker makes
CallsPerWorker == SharedSteps \div NWorkers

None == "None"
AdditionalMessage == "job 1"

\* an additional_message of more than 80 characters (90)
LongMessage ==
    "worker 1: smoothing the grey matter density maps of the subjects, group 3 of 7, fold 2 ..."
CustomMessage == "%(current_state_)d%% done\r"
DefaultMessage ==
    "(%(current_state_)0.2f%% completed, %(remaining_time_)d secs remaining)\r"

\* np.iinfo(np.int).max, the placeholder of remaining_time_: 2^63 - 1
IntMax == [s |-> 0, m |-> <<32767, 32767, 32767, 32767, 7>>, e |-> 0]

\* How a caller may write a call of show_progress: the argument list.
NoArgument == [form |-> "none", additional_message |-> None]
Calls ==
    {NoArgument}
      \cup [form : {"positional", "keyword"},
            additional_message : {AdditionalMessage}]

\* The calls of a procedure whose annotations do not fit the box.
LongCalls ==
    {NoArgument, [form |-> "positional", additional_message |-> LongMessage]}

VARIABLES
    bar,                       \* the class of the object the caller holds
    via,                       \* how it was made: "constructor", "factory"
    n_steps,                   \* the n_steps it was made with
    verbosity_level,           \* the verbosity_level the factory was given
    allow_additional_message,  \* ProgressBar attributes
    message,
    current_state_,
    step_size_,
    t0_,
    remaining_time_,
    clock,                     \* what time.time() returns
    stderr,                    \* the chunks written to sys.stderr, in order
    stdout,                    \* the chunks written to sys.stdout, in order
    calls,                     \* show_progress calls that have returned
    raised,                    \* the exception that ended the procedure
    raised_by,                 \* and the operation that raised it
    broker,                    \* a SharedProgressBar server process runs
    pc,                        \* SpecShared: where the server thread of each
                               \* worker's connection is in show_progress
    local,                     \* and the value that thread has computed
    issued                     \* and the calls each worker has made

attributes ==
    <<allow_additional_message, message, current_state_, step_size_, t0_,
      remaining_time_>>

made == <<bar, via, n_steps, verbosity_level>>

threads == <<pc, local, issued>>

vars ==
    <<made, attributes, clock, stderr, stdout, calls, raised, raised_by,
      broker, threads>>

Init ==
    /\ bar = "none"
    /\ via = "none"
    /\ n_steps = 0
    /\ verbosity_level = 0
    /\ allow_additional_message = FALSE
    /\ message = "unset"
    /\ current_state_ = Zero
    /\ step_size_ = Zero
    /\ t0_ = Zero
    /\ remaining_time_ = Zero
    /\ clock = 0
    /\ stderr = <<>>
    /\ stdout = <<>>
    /\ calls = 0
    /\ raised = "none"
    /\ raised_by = "none"
    /\ broker = FALSE
    /\ pc = [w \in Workers |-> "idle"]
    /\ local = [w \in Workers |-> Zero]
    /\ issued = [w \in Workers |-> 0]

(***************************************************************************)
(* ProgressBar                                                             *)
(***************************************************************************)
\* What one write to a stream shows: the status line rendered from the
\* template with the current_state_ it was rendered at, an annotation, or
\* the line break of print "".  call names the show_progress call that
\* wrote it: <<worker, number>>, worker 0 the procedure itself and number 0
\* the constructor.
\* The box of "%80s" and of .ljust(80)
Width == 80

\* The number of decimal digits of the natural number b (limbs): k, the
\* least with b < p = 10^k.
RECURSIVE DecDigits(_, _, _)
DecDigits(b, p, k) ==
    IF BCmp(b, p) < 0 THEN k ELSE DecDigits(b, BMulSmall(p, 10, 0), k + 1)

\* The length of "%d" % x: x cut to an integer towards zero.
LenD(x) ==
    LET whole == IF x = Zero THEN <<>>
                 ELSE IF x.e >= 0 THEN BShl(x.m, x.e) ELSE BShr(x.m, -x.e)
    IN  DecDigits(whole, <<10>>, 1) + (IF x.s = 1 /\ whole # <<>> THEN 1 ELSE 0)

\* The length of "%0.2f" % x: x rounded to hundredths, to nearest and the
\* tie to even.
LenF2(x) ==
    LET t == IF x = Zero THEN <<>> ELSE BMulSmall(x.m, 100, 0)
        q == IF x = Zero THEN <<>>
             ELSE IF x.e >= 0 THEN BShl(t, x.e) ELSE BShr(t, -x.e)
        c == IF x = Zero \/ x.e >= 0 THEN -1
             ELSE BCmp(BShl(BSub(t, BShl(q, -x.e)), 1), BShl(<<1>>, -x.e))
        up == c > 0 \/ (c = 0 /\ BBit(q, 0) = 1)
        h == IF up THEN BAdd(q, <<1>>) ELSE q
        digits == DecDigits(h, <<10>>, 1)
    IN  (IF x # Zero /\ x.s = 1 THEN 1 ELSE 0)
          + (IF digits < 3 THEN 3 ELSE digits) + 1

\* The length of self.message % self.__dict__ : the characters of the
\* template that are no conversion, and the lengths of the conversions.
RenderedLen(template, state, remaining) ==
    IF template = DefaultMessage
    THEN Len("(") + LenF2(state) + Len("% completed, ") + LenD(remaining)
           + Len(" secs remaining)\r")
    ELSE LenD(state) + Len("% done\r")

\* The length of "%80s" % text and of text.ljust(80): shorter text is
\* padded to the box, longer text is left as it is.
Padded(len) == IF len < Width THEN Width ELSE len

StatusLine(template, state, remaining, call) ==
    [kind |-> "status", template |-> template, state |-> state,
     width |-> Padded(RenderedLen(template, state, remaining)), call |-> call]

Annotation(text, call) ==
    [kind |-> "annotation", text |-> text, width |-> Padded(Len(text)),
     call |-> call]

LineBreak(call) == [kind |-> "newline", call |-> call]

\* a fraction where a percentage is meant: 1. / n_steps
StepSizeFraction(n) == FDiv(FromInt(1), FromInt(n))

\* the integer division of Python 2: 100 / n_steps
StepSizeWhole(n) == FromInt(100 \div n)

\* 100. / n_steps
StepSize(n) == FDiv(FromInt(100), FromInt(n))

\* ProgressBar.__init__(n_steps, message, allow_additional_message)
ProgressBarInit(n, msg, allow) ==
    IF n = 0
    THEN \* 100. / n_steps
         /\ raised' = "ZeroDivisionError"
         /\ raised_by' = "ProgressBar"
         /\ UNCHANGED <<bar, attributes, stderr>>
    ELSE IF msg # None
    THEN \* self.message is never assigned: self.message % ... fails
         /\ raised' = "AttributeError"
         /\ raised_by' = "ProgressBar"
         /\ UNCHANGED <<bar, attributes, stderr>>
    ELSE /\ allow_additional_message' = allow
         /\ message' = DefaultMessage
         /\ current_state_' = Zero
         /\ step_size_' = StepSize(n)
         /\ t0_' = FromInt(clock)
         /\ remaining_time_' = IntMax
         /\ stderr' = Append(stderr, StatusLine(DefaultMessage, Zero, IntMax, <<0, 0>>))
         /\ bar' = "ProgressBar"
         /\ UNCHANGED <<raised, raised_by>>

\* progress_bar = ProgressBar(n, msg, allow)
Construct(n, msg, allow) ==
    /\ bar = "none"
    /\ raised = "none"
    /\ via' = "constructor"
    /\ n_steps' = n
    /\ ProgressBarInit(n, msg, allow)
    /\ UNCHANGED <<verbosity_level, clock, stdout, calls, broker, threads>>

get_ellapsed_time(now, t0) == FSub(FromInt(now), t0)

\* now1 and now2 are the clock at the first and second get_ellapsed_time()
get_remaining_time(state, t0, now1, now2) ==
    LET estimated_total_time ==
            FDiv(FMul(FromInt(100), get_ellapsed_time(now1, t0)), state)
    IN  FSub(estimated_total_time, get_ellapsed_time(now2, t0))

\* the step counted twice
AdvanceTwice(state, step) == FAdd(FAdd(state, step), step)

\* the step taken off: self.current_state_ - self.step_size_
AdvanceBack(state, step) == FSub(state, step)

\* one percent a call: self.current_state_ + 1.
AdvancePercent(state, step) == FAdd(state, FromInt(1))

\* self.current_state_ + self.step_size_
Advance(state, step) == FAdd(state, step)

\* the line break only up to 100 %:
\* if 100 >= self.current_state_ > (100 - self.step_size_)
FinishedUntilFull(state, step) ==
    FGt(state, FSub(FromInt(100), step)) /\ FLe(state, FromInt(100))

\* if self.current_state_ > (100 - self.step_size_)
Finished(state, step) == FGt(state, FSub(FromInt(100), step))

\* the permission not asked: if additional_message is not None
AnnotatesAlways(additional_message, allow) == additional_message # None

\* if additional_message is not None and self.allow_additional_message
Annotates(additional_message, allow) ==
    additional_message # None /\ allow

\* def show_progress(self, additional_message=None): the parameters
\* besides self
ShowParameters == {"additional_message"}

\* The parameters a call binds.
Binds(call) == IF call.form = "none" THEN {} ELSE {"additional_message"}

\* The calls the model lets the procedure make on a tracker.
MayCall ==
    IF n_steps < 0 THEN calls < ExtraCalls ELSE calls < n_steps + ExtraCalls

\* ProgressBar.show_progress, called by the procedure that made the
\* tracker; the clock moves on by d between the two readings of the
\* elapsed time.
ShowProgress(call, d) ==
    /\ bar = "ProgressBar"
    /\ raised = "none"
    /\ MayCall
    /\ Binds(call) \subseteq ShowParameters
    /\ clock + d <= MaxClock
    /\ LET state == Advance(current_state_, step_size_)
           id    == <<0, calls + 1>>
       IN  /\ current_state_' = state
           /\ IF state = Zero
              THEN /\ raised' = "ZeroDivisionError"
                   /\ raised_by' = "show_progress"
                   /\ UNCHANGED <<remaining_time_, stderr, stdout, calls>>
              ELSE /\ remaining_time_' =
                        get_remaining_time(state, t0_, clock, clock + d)
                   /\ stderr' =
                        stderr
                          \o (IF Annotates(call.additional_message,
                                           allow_additional_message)
                              THEN <<Annotation(call.additional_message, id)>>
                              ELSE <<>>)
                          \o <<StatusLine(message, state, remaining_time_', id)>>
                   /\ stdout' =
                        IF Finished(state, step_size_)
                        THEN Append(stdout, LineBreak(id))
                        ELSE stdout
                   /\ calls' = calls + 1
                   /\ UNCHANGED <<raised, raised_by>>
    /\ clock' = clock + d
    /\ UNCHANGED <<made, allow_additional_message, message, step_size_, t0_,
                   broker, threads>>

(***************************************************************************)
(* EmptyProgressBar                                                        *)
(***************************************************************************)
\* def show_progress(self): the parameters besides self
EmptyParameters == {}

\* EmptyProgressBar.show_progress
EmptyShowProgress(call) ==
    /\ bar = "EmptyProgressBar"
    /\ raised = "none"
    /\ calls < MaxSteps + ExtraCalls
    /\ IF Binds(call) \subseteq EmptyParameters
       THEN calls' = calls + 1 /\ UNCHANGED <<raised, raised_by>>
       ELSE /\ raised' = "TypeError"
            /\ raised_by' = "show_progress"
            /\ UNCHANGED calls
    /\ UNCHANGED <<made, attributes, clock, stderr, stdout, broker, threads>>

(***************************************************************************)
(* make_progress_bar                                                       *)
(***************************************************************************)
\* The keyword arguments ProgressBar.__init__ takes.
InitParameters == {"n_steps", "message", "allow_additional_message"}

\* The keyword arguments make_progress_bar gives it.
FactoryKeywords == {"n_steps", "verbosity_level"}

\* if verbosity_level == 0 or n_steps < 1
DisabledBelowOne(n, v) == v = 0 \/ n < 1

\* if verbosity_level == 0 or n_steps <= 1
Disabled(n, v) == v = 0 \/ n <= 1

\* progress_bar = make_progress_bar(n, v)
MakeProgressBar(n, v) ==
    /\ bar = "none"
    /\ raised = "none"
    /\ via' = "factory"
    /\ n_steps' = n
    /\ verbosity_level' = v
    /\ IF Disabled(n, v)
       THEN /\ bar' = "EmptyProgressBar"
            /\ UNCHANGED <<raised, raised_by, broker, attributes, stderr>>
       ELSE \* SharedProgressBar().start(), then the server process runs
            \* ProgressBar(n_steps=..., verbosity_level=...)
            /\ broker' = TRUE
            /\ IF FactoryKeywords \subseteq InitParameters
               THEN ProgressBarInit(n, None, TRUE)
               ELSE /\ raised' = "RemoteError"
                    /\ raised_by' = "make_progress_bar"
                    /\ UNCHANGED <<bar, attributes, stderr>>
    /\ UNCHANGED <<clock, stdout, calls, threads>>

\* Time passes.
Tick ==
    /\ raised = "none"
    /\ clock < MaxClock
    /\ clock' = clock + 1
    /\ UNCHANGED <<made, attributes, stderr, stdout, calls, raised,
                   raised_by, broker, threads>>

Next ==
    \/ \E n \in (-MaxNeg)..MaxSteps, msg \in {None, CustomMessage},
          allow \in BOOLEAN : Construct(n, msg, allow)
    \/ \E call \in Calls, d \in 0..1 : ShowProgress(call, d)
    \/ \E call \in Calls : EmptyShowProgress(call)
    \/ \E n \in (-MaxNeg)..MaxSteps, v \in 0..MaxVerbosity :
          MakeProgressBar(n, v)
    \/ Tick

Spec == Init /\ [][Next]_vars

(***************************************************************************)
(* A procedure of many steps: ProgressBar(n_steps), then show_progress()   *)
(***************************************************************************)
NextSteps ==
    \/ \E n \in (-MaxNeg)..MaxLongSteps : Construct(n, None, TRUE)
    \/ \E d \in 0..1 : ShowProgress(NoArgument, d)
    \/ Tick

SpecSteps == Init /\ [][NextSteps]_vars

(***************************************************************************)
(* A procedure that annotates its steps at length:                         *)
(* ProgressBar(n_steps, allow_additional_message=...), then                *)
(* show_progress() or show_progress(LongMessage)                           *)
(***************************************************************************)
NextWidth ==
    \/ \E n \in 1..MaxSteps, allow \in BOOLEAN : Construct(n, None, allow)
    \/ \E call \in LongCalls, d \in 0..1 : ShowProgress(call, d)

SpecWidth == Init /\ [][NextWidth]_vars

(***************************************************************************)
(* SharedProgressBar: a tracker shared by worker processes.                *)
(*                                                                         *)
(* manager = SharedProgressBar(); manager.start();                         *)
(* progress_bar = manager.Progress(n_steps=...) makes the tracker in the   *)
(* manager's server process and hands out a proxy.  The server gives every *)
(* connection (every worker process) a thread of its own, which runs the   *)
(* method the proxy asks for on the one ProgressBar; neither the manager   *)
(* nor show_progress takes a lock, so the threads run show_progress        *)
(* attribute access by attribute access, in any interleaving.              *)
(***************************************************************************)
InitShared ==
    /\ bar = "ProgressBar"
    /\ via = "manager"
    /\ n_steps = SharedSteps
    /\ verbosity_level = 0
    /\ allow_additional_message \in BOOLEAN
    /\ message = DefaultMessage
    /\ current_state_ = Zero
    /\ step_size_ = StepSize(n_steps)
    /\ t0_ = FromInt(0)
    /\ remaining_time_ = IntMax
    /\ clock = 0
    /\ stderr = <<StatusLine(DefaultMessage, Zero, IntMax, <<0, 0>>)>>
    /\ stdout = <<>>
    /\ calls = 0
    /\ raised = "none"
    /\ raised_by = "none"
    /\ broker = TRUE
    /\ pc = [w \in Workers |-> "idle"]
    /\ local = [w \in Workers |-> Zero]
    /\ issued = [w \in Workers |-> 0]

shared == <<made, clock, raised, raised_by, broker>>

\* a statement run by one thread at a time: the thread waits while another
\* thread is at the same statement
ReadyInTurn(w, stage) ==
    pc[w] = stage /\ \A v \in Workers \ {w} : pc[v] # stage

\* The thread of worker w's connection is at the statement stage of
\* show_progress and can run it: neither show_progress nor the server makes
\* a thread wait for another.
Ready(w, stage) == pc[w] = stage

\* Worker w calls progress_bar.show_progress(AdditionalMessage); its thread
\* in the server starts on the method and evaluates
\* self.current_state_ + self.step_size_
Load(w) ==
    /\ pc[w] = "idle"
    /\ issued[w] < CallsPerWorker
    /\ issued' = [issued EXCEPT ![w] = @ + 1]
    /\ local' = [local EXCEPT ![w] = Advance(current_state_, step_size_)]
    /\ pc' = [pc EXCEPT ![w] = "store"]
    /\ UNCHANGED <<shared, attributes, stderr, stdout, calls>>

\* self.current_state_ = ...
Store(w) ==
    /\ Ready(w, "store")
    /\ current_state_' = local[w]
    /\ pc' = [pc EXCEPT ![w] = "estimate"]
    /\ UNCHANGED <<shared, allow_additional_message, message, step_size_,
                   t0_, remaining_time_, stderr, stdout, calls, local,
                   issued>>

\* self.remaining_time_ = self.get_remaining_time()
Estimate(w) ==
    /\ Ready(w, "estimate")
    /\ remaining_time_' =
         get_remaining_time(current_state_, t0_, clock, clock)
    /\ pc' = [pc EXCEPT ![w] = "annotate"]
    /\ UNCHANGED <<shared, allow_additional_message, message,
                   current_state_, step_size_, t0_, stderr, stdout, calls,
                   local, issued>>

\* if additional_message is not None and self.allow_additional_message:
\*     sys.stderr.write(additional_message.ljust(80))
Annotate(w) ==
    /\ Ready(w, "annotate")
    /\ stderr' =
         IF Annotates(AdditionalMessage, allow_additional_message)
         THEN Append(stderr, Annotation(AdditionalMessage, <<w, issued[w]>>))
         ELSE stderr
    /\ pc' = [pc EXCEPT ![w] = "status"]
    /\ UNCHANGED <<shared, attributes, stdout, calls, local, issued>>

\* sys.stderr.write("%80s" % (self.message % self.__dict__))
Status(w) ==
    /\ Ready(w, "status")
    /\ stderr' =
         Append(stderr, StatusLine(message, current_state_, remaining_time_,
                               <<w, issued[w]>>))
    /\ pc' = [pc EXCEPT ![w] = "finish"]
    /\ UNCHANGED <<shared, attributes, stdout, calls, local, issued>>

\* if self.current_state_ > (100 - self.step_size_): print ""
\* and the call returns to the worker
Finish(w) ==
    /\ Ready(w, "finish")
    /\ stdout' =
         IF Finished(current_state_, step_size_)
         THEN Append(stdout, LineBreak(<<w, issued[w]>>))
         ELSE stdout
    /\ pc' = [pc EXCEPT ![w] = "idle"]
    /\ calls' = calls + 1
    /\ UNCHANGED <<shared, attributes, stderr, local, issued>>

NextShared ==
    \E w \in Workers :
        \/ Load(w)
        \/ Store(w)
        \/ Estimate(w)
        \/ Annotate(w)
        \/ Status(w)
        \/ Finish(w)

SpecShared == InitShared /\ [][NextShared]_vars

\* The thread the server runs for the connection of worker w.
Thread(w) ==
    Store(w) \/ Estimate(w) \/ Annotate(w) \/ Status(w) \/ Finish(w)

\* The statements of show_progress a thread can be at.
Stages == {"store", "estimate", "annotate", "status", "finish"}

\* The operating system schedules every worker process and every thread of
\* the server again and again.  A thread that can run its next statement
\* runs it: weak fairness of Thread(w), with its enabling condition
\* written out (a step of Thread(w) always changes pc[w]).  A worker that
\* has calls left and no call outstanding makes the next call: weak
\* fairness of Load(w), written out likewise.  For the statement that
\* stores the sum the same is said with WF.
Scheduling ==
    \A w \in Workers :
        /\ WF_vars(Store(w))
        /\ ([]<>(~(\E stage \in Stages : Ready(w, stage)))
              \/ []<><<Thread(w)>>_vars)
        /\ ([]<>(~(pc[w] = "idle" /\ issued[w] < CallsPerWorker))
              \/ []<><<Load(w)>>_vars)

SpecSharedFair == InitShared /\ [][NextShared]_vars /\ Scheduling

(***************************************************************************)
(* The claims.                                                             *)
(***************************************************************************)
Hundred == FromInt(100)

\* x + y exactly, not rounded to a float
XSum(x, y) == LET t == ExactSum(x, y) IN Canon(t[1], t[2], t[3])

\* k increments of step applied to 0.
RECURSIVE Times(_, _)
Times(k, step) == IF k = 0 THEN Zero ELSE Advance(Times(k - 1, step), step)

AllReturned == \A w \in Workers : pc[w] = "idle" /\ issued[w] = CallsPerWorker

\* C1 (as claimed; SpecShared): once the NWorkers workers have each made
\* their CallsPerWorker calls of show_progress on the shared tracker and
\* all calls have returned, current_state_ is NWorkers * CallsPerWorker
\* increments of step_size_: no update is lost.
C1_NoLostUpdate ==
    AllReturned =>
        current_state_ = Times(NWorkers * CallsPerWorker, step_size_)

\* C2 (as claimed; SpecShared): at most one show_progress call on the
\* shared tracker is executing its body at any time.
C2_MutualExclusion ==
    Cardinality({w \in Workers : pc[w] # "idle"}) <= 1

\* C3 (SpecSteps): after exactly n_steps calls of show_progress on a fresh
\* ProgressBar(n_steps), n_steps > 1, current_state_ is within one
\* step_size_ of 100; for n_steps = 10 it is 100.0.
C3_CompletionValue ==
    (bar = "ProgressBar" /\ n_steps > 1 /\ calls = n_steps) =>
        /\ FLe(XSum(Hundred, FNeg(step_size_)), current_state_)
        /\ FLe(current_state_, XSum(Hundred, step_size_))
        /\ (n_steps = 10 => current_state_ = Hundred)

C3_Witness ==
    bar = "ProgressBar" /\ n_steps = 10 /\ calls = 10
      /\ current_state_ = Hundred

\* Call k of the procedure wrote the trailing line break.
Broke(k) == \E i \in DOMAIN stdout : stdout[i].call = <<0, k>>

\* C4 (as claimed; SpecSteps): for n_steps > 1, call k of show_progress
\* emits the trailing line break if and only if k >= n_steps.
C4_LineBreakFromLastCall ==
    (bar = "ProgressBar" /\ n_steps > 1) =>
        \A k \in 1..calls : Broke(k) <=> k >= n_steps

InRange ==
    /\ FGe(current_state_, Zero)
    /\ FLe(current_state_, XSum(Hundred, step_size_))

\* C5 (as claimed; SpecSteps): whatever calls of show_progress were made,
\* more than n_steps of them included, current_state_ is at least 0 and at
\* most 100 plus one step_size_ (here for the trackers of n_steps >= 1).
C5_BoundAnyCalls == (bar = "ProgressBar" /\ n_steps >= 1) => InRange

\* C5 (amended; SpecSteps): on a tracker created with n_steps >= 1, as long
\* as no more than n_steps calls of show_progress were made, current_state_
\* is at least 0 and at most 100 plus one step_size_.
C5_BoundWithinSteps ==
    (bar = "ProgressBar" /\ n_steps >= 1 /\ calls <= n_steps) => InRange

C5_Witness ==
    bar = "ProgressBar" /\ n_steps > 1 /\ calls = n_steps
      /\ FGt(current_state_, Hundred)

\* C6 (as claimed; SpecSteps): no operation decreases current_state_, for
\* any tracker the constructor accepts.
C6_MonotonicAnySteps == [][FGe(current_state_', current_state_)]_vars

\* C6 (amended; SpecSteps): no operation decreases current_state_ of a
\* tracker created with n_steps >= 1.
C6_Monotonic ==
    [][(bar' = "ProgressBar" /\ n_steps' >= 1)
         => FGe(current_state_', current_state_)]_vars

C6_Witness ==
    bar = "ProgressBar" /\ n_steps >= 1 /\ calls >= 2
      /\ FGt(current_state_, step_size_)

\* C7 (as claimed; SpecSteps): after a call of show_progress that leaves
\* current_state_ > 0, remaining_time_ >= 0.
C7_NonNegativeEstimate ==
    (bar = "ProgressBar" /\ calls >= 1 /\ FGt(current_state_, Zero)) =>
        FGe(remaining_time_, Zero)

\* C8 (as claimed; Spec): EmptyProgressBar.show_progress takes every call
\* ProgressBar.show_progress takes, never raises, writes nothing and
\* changes no state.
C8_EmptyNeverFails ==
    bar = "EmptyProgressBar" =>
        /\ raised = "none"
        /\ stderr = <<>> /\ stdout = <<>>
        /\ current_state_ = Zero /\ remaining_time_ = Zero

\* C9 (as claimed; Spec): make_progress_bar(n_steps, verbosity_level) with
\* n_steps > 1 and verbosity_level 1 or 2 returns, without raising, a
\* shared tracker with current_state_ = 0 that allows annotations exactly
\* when verbosity_level is 2.
C9_FactoryActive ==
    (via = "factory" /\ n_steps > 1 /\ verbosity_level \in {1, 2}) =>
        /\ raised_by # "make_progress_bar"
        /\ bar = "ProgressBar"
        /\ broker
        /\ (calls = 0 => current_state_ = Zero)
        /\ allow_additional_message = (verbosity_level = 2)

\* C10 (Spec): make_progress_bar returns an EmptyProgressBar if and only if
\* verbosity_level = 0 or n_steps <= 1, and then it has started no server
\* process, written nothing and not raised.
C10_FactoryDisabled ==
    via = "factory" =>
        /\ bar = "EmptyProgressBar" <=> (verbosity_level = 0 \/ n_steps <= 1)
        /\ (verbosity_level = 0 \/ n_steps <= 1) =>
              /\ ~broker
              /\ stderr = <<>> /\ stdout = <<>>
              /\ raised_by # "make_progress_bar"

C10_Witness ==
    via = "factory" /\ bar = "EmptyProgressBar" /\ n_steps <= 0
      /\ verbosity_level = 2 /\ raised = "none"

\* C11 (as claimed; Spec): ProgressBar(n_steps, message, ...) with
\* n_steps >= 1 creates the tracker whatever message it is given, the
\* caller's own template included, and every status line on stderr is
\* rendered from the tracker's message.
C11_CustomMessage ==
    (via = "constructor" /\ n_steps >= 1) =>
        /\ bar = "ProgressBar"
        /\ raised = "none"
        /\ \A i \in DOMAIN stderr :
              stderr[i].kind = "status" => stderr[i].template = message

\* C12 (as claimed; SpecWidth): every chunk the constructor and
\* show_progress write to stderr, status line or annotation, is exactly 80
\* characters long, whatever the length of the text.
C12_FixedWidth ==
    \A i \in DOMAIN stderr : stderr[i].width = Width

\* What a step of the procedure has added to stderr.
Written == SubSeq(stderr', Len(stderr) + 1, Len(stderr'))

\* The chunks on stderr that call k of the procedure wrote, by position.
ChunksOf(k) == {i \in DOMAIN stderr : stderr[i].call = <<0, k>>}

\* C13 (SpecWidth): a call of show_progress that returns writes its annotation
\* if and only if it was given an additional_message and
\* allow_additional_message is true, writes it directly before its status
\* line, and writes exactly one status line in either case; on stderr
\* every annotation is directly followed by the status line of the same
\* call.
C13_AnnotationGating ==
    /\ [][\A call \in LongCalls, d \in 0..1 :
            (/\ bar = "ProgressBar" /\ calls' = calls + 1
             /\ clock' = clock + d
             /\ ShowProgress(call, d)) =>
               IF call.additional_message # None /\ allow_additional_message
               THEN /\ Len(Written) = 2
                    /\ Written[1].kind = "annotation"
                    /\ Written[1].text = call.additional_message
                    /\ Written[2].kind = "status"
                    /\ Written[1].call = Written[2].call
               ELSE /\ Len(Written) = 1
                    /\ Written[1].kind = "status"]_vars
    /\ [](bar = "ProgressBar" =>
            /\ \A k \in 1..calls :
                  Cardinality({i \in ChunksOf(k) : stderr[i].kind = "status"})
                    = 1
            /\ \A i \in DOMAIN stderr :
                  stderr[i].kind = "annotation" =>
                     /\ i < Len(stderr)
                     /\ stderr[i + 1].kind = "status"
                     /\ stderr[i + 1].call = stderr[i].call)

\* One call was annotated and another, on the same tracker, was not.
C13_Witness ==
    /\ bar = "ProgressBar" /\ allow_additional_message /\ calls >= 2
    /\ \E i \in DOMAIN stderr : stderr[i].kind = "annotation"
    /\ \E k \in 1..calls : Cardinality(ChunksOf(k)) = 1

\* C14 (as claimed; SpecShared): on the stderr of the shared tracker the
\* writes of one show_progress call are never separated by the writes of
\* another: every annotation that is followed by anything is followed by
\* the status line of the same call.
C14_NotInterleaved ==
    \A i \in DOMAIN stderr :
        (stderr[i].kind = "annotation" /\ i < Len(stderr)) =>
            /\ stderr[i + 1].kind = "status"
            /\ stderr[i + 1].call = stderr[i].call

\* C15 (as claimed; Spec): the tracker writes to stderr only, the trailing
\* line break included: nothing is ever written to stdout.
C15_SingleStream == stdout = <<>>

\* C16 (SpecSteps): on a tracker of n_steps >= 1, once a call of
\* show_progress has written the trailing line break, every later call is
\* accepted, raises nothing and writes the trailing line break too, and
\* current_state_ is not back at 0.
C16_FinalizedAbsorbing ==
    (bar = "ProgressBar" /\ n_steps >= 1) =>
        /\ \A k \in 1..calls : Broke(k) => \A j \in k..calls : Broke(j)
        /\ stdout # <<>> => (raised = "none" /\ FGt(current_state_, Zero))

\* Calls beyond n_steps were made on a finalized tracker.
C16_Witness ==
    /\ bar = "ProgressBar" /\ n_steps >= 2 /\ calls >= n_steps + 2
    /\ Broke(n_steps) /\ Broke(calls)
    /\ Len(stdout) >= 3

\* a is the beginning of b
Prefix(a, b) == Len(a) <= Len(b) /\ SubSeq(b, 1, Len(a)) = a

\* step added k times to 0., each sum rounded to a float
RECURSIVE Accumulated(_, _)
Accumulated(k, step) ==
    IF k = 0 THEN Zero ELSE FAdd(Accumulated(k - 1, step), step)

\* A call of show_progress that returns leaves step_size_, t0_, message
\* and allow_additional_message as they were, adds step_size_ to
\* current_state_ and only appends to the output; and no other step
\* changes current_state_.
FrameOfAdvance ==
    /\ (bar = "ProgressBar" /\ calls' = calls + 1) =>
          /\ UNCHANGED <<step_size_, t0_, message, allow_additional_message>>
          /\ current_state_' = FAdd(current_state_, step_size_)
          /\ Prefix(stderr, stderr') /\ Prefix(stdout, stdout')
    /\ current_state_' # current_state_ =>
          (bar = "ProgressBar" /\ calls' = calls + 1)

\* C17 (as claimed; SpecSteps): show_progress changes only current_state_
\* and remaining_time_ and appends to the output, nothing else changes
\* current_state_, and after k calls current_state_ is the product
\* k * step_size_.
C17_FrameProduct ==
    /\ [][FrameOfAdvance]_vars
    /\ [](bar = "ProgressBar" =>
            current_state_ = FMul(FromInt(calls), step_size_))

\* C17 (amended; SpecSteps): show_progress changes only current_state_ and
\* remaining_time_ and appends to the output, nothing else changes
\* current_state_, and after k calls current_state_ is step_size_ added k
\* times to 0., each addition rounded.
C17_FrameSum ==
    /\ [][FrameOfAdvance]_vars
    /\ [](bar = "ProgressBar" =>
            current_state_ = Accumulated(calls, step_size_))

\* Six calls on ProgressBar(6): the sum is not the product.
C17_Witness ==
    /\ bar = "ProgressBar" /\ n_steps = 6 /\ calls = 6
    /\ current_state_ = Accumulated(6, step_size_)
    /\ current_state_ # FMul(FromInt(6), step_size_)

\* C18 (SpecSteps): ProgressBar(n_steps) with n_steps >= 1 leaves, before
\* any call of show_progress, current_state_ = 0, step_size_ = 100 / n_steps
\* and remaining_time_ = 2^63 - 1, and has written one status line, showing
\* current_state_ = 0, and nothing else; and no operation on the tracker
\* fails dividing by a current_state_ of 0.
C18_CreationState ==
    (bar = "ProgressBar" /\ n_steps >= 1) =>
        /\ raised # "ZeroDivisionError"
        /\ calls = 0 =>
              /\ current_state_ = Zero
              /\ step_size_ = FDiv(Hundred, FromInt(n_steps))
              /\ remaining_time_ = IntMax
              /\ Len(stderr) = 1
              /\ stderr[1].kind = "status"
              /\ stderr[1].state = Zero
              /\ stderr[1].call = <<0, 0>>
              /\ stdout = <<>>

\* ProgressBar(3) has just been made.
C18_Witness ==
    /\ bar = "ProgressBar" /\ n_steps = 3 /\ calls = 0
    /\ step_size_ # FromInt(33)
    /\ Len(stderr) = 1

\* C19 (SpecSharedFair): with NWorkers workers making CallsPerWorker calls
\* each on the shared tracker and a server whose threads keep being
\* scheduled, every call of show_progress that was made returns, and in
\* the end all NWorkers * CallsPerWorker calls have returned.
C19_EveryCallReturns ==
    /\ \A w \in Workers : (pc[w] # "idle") ~> (pc[w] = "idle")
    /\ <>[](calls = NWorkers * CallsPerWorker
              /\ \A w \in Workers : pc[w] = "idle")

\* All the calls of all the workers have returned.
C19_Witness ==
    /\ calls = NWorkers * CallsPerWorker
    /\ \A w \in Workers : pc[w] = "idle" /\ issued[w] = CallsPerWorker
    /\ Len(stderr) > calls

=============================================================================
